---- MODULE Spec2Model ----
(***************************************************************************)
(* A model of aoncodev/imageEnhancer: the enhance_image pipeline           *)
(* (app/services/enhancer.py), the module-level load of the DnCNN weights  *)
(* and the process start-up (enhancer.py, main.py), and the recovery of a  *)
(* JSON object from the generator's text at the four call sites            *)
(* (openai_client.py, translate.py, datagen.py).                           *)
(*                                                                         *)
(* Numbers.  Pixels are the integers 0..255.  The float tensors of the     *)
(* code (values in [0,1]) are kept on the same 0..255 scale, so x/255 is   *)
(* represented by x; the arithmetic is exact, the float32/float64 rounding *)
(* of the code is not modelled.  cv2.convertScaleAbs is exact here: 1.2*p  *)
(* and 1.4*p are multiples of 0.2, never at a rounding tie.                *)
(***************************************************************************)
EXTENDS Integers, Sequences, FiniteSets, TLC

VARIABLES
    calls,      \* per enhance_image call: its position and its local variables
    weights,    \* the parameters of the module-level `model` of enhancer.py
    proc,       \* the server process: start-up position, sys.modules, counters
    disk,       \* the file at CACHE_PATH, which outlives a process
    reqs,       \* the requests of the running process (start-up model)
    rec,        \* one structured-extraction call: site, generator text, outcome
    ext         \* one /extract request: position, image size, what was done, response

vars == <<calls, weights, proc, disk, reqs, rec, ext>>

(***************************************************************************)
(* Bounds of the model.                                                    *)
(***************************************************************************)
\* the largest number of pixels H*W of an input image
MaxPixels == 3
\* the number of concurrent enhance_image calls in SpecConcurrent
MaxCalls == 2
\* the depth of the modelled DnCNN (the code builds num_layers = 20)
ModelLayers == 3
\* the number of times the server process is started
MaxStarts == 2
\* the number of requests one process receives
MaxRequests == 2

(***************************************************************************)
(* Arithmetic helpers.                                                     *)
(***************************************************************************)
Abs(x) == IF x < 0 THEN -x ELSE x

Clamp(x, lo, hi) == IF x < lo THEN lo ELSE IF x > hi THEN hi ELSE x

RECURSIVE SumSeq(_)
SumSeq(s) == IF s = <<>> THEN 0 ELSE Head(s) + SumSeq(Tail(s))

\* cvRound of n/d for n >= 0, d > 0: to nearest, ties to even
RoundDiv(n, d) ==
    LET q == n \div d
        r == n % d
    IN  IF 2 * r < d THEN q
        ELSE IF 2 * r > d THEN q + 1
        ELSE IF q % 2 = 0 THEN q ELSE q + 1

(***************************************************************************)
(* Images and tensors: a shape (the numpy/torch shape) and the samples in  *)
(* row-major order.                                                        *)
(***************************************************************************)
\* the samples are kept as an explicit sequence (a function given by a rule
\* would be evaluated again at every use)
Array(shape, px) == [shape |-> shape, px |-> px \o <<>>]

\* rows and columns of an array seen as a 2-D raster: a 1-D array of n
\* samples is one row of n, a 0-d array one sample
Rows(a) == IF Len(a.shape) >= 2 THEN a.shape[Len(a.shape) - 1] ELSE 1
Cols(a) == IF Len(a.shape) >= 1 THEN a.shape[Len(a.shape)] ELSE 1

At(a, r, c) == a.px[(r - 1) * Cols(a) + c]

RowOf(a, i) == ((i - 1) \div Cols(a)) + 1
ColOf(a, i) == ((i - 1) % Cols(a)) + 1

\* img.mean() compared with a threshold t, without division
MeanAbove(a, t) == SumSeq(a.px) > t * Len(a.px)
MeanBelow(a, t) == SumSeq(a.px) < t * Len(a.px)

(***************************************************************************)
(* Stage 1: brightness normalisation, enhancer.py lines 46-52.             *)
(***************************************************************************)
BrightMean == 120
DarkMean == 80

\* cv2.convertScaleAbs(img, alpha = an/ad, beta): saturate_cast<uchar>(|p*alpha + beta|)
ScaleAbs(p, an, ad, beta) == Clamp(RoundDiv(Abs(an * p + ad * beta), ad), 0, 255)

convertScaleAbs(a, an, ad, beta) ==
    Array(a.shape, [i \in 1..Len(a.px) |-> ScaleAbs(a.px[i], an, ad, beta)])

\* which of the three branches the mean selects
Branch(a) ==
    IF MeanAbove(a, BrightMean) THEN "bright"
    ELSE IF MeanBelow(a, DarkMean) THEN "dark"
    ELSE "mid"

\* faulty variant: the bright branch takes the coefficients of the dark branch
NormalizeBrightAsDark(a) ==
    IF Branch(a) = "mid" THEN convertScaleAbs(a, 6, 5, 0)
    ELSE convertScaleAbs(a, 7, 5, 0)

NormalizeImage(a) ==
    IF Branch(a) = "bright" THEN convertScaleAbs(a, 6, 5, -20)
    ELSE IF Branch(a) = "dark" THEN convertScaleAbs(a, 7, 5, 0)
    ELSE convertScaleAbs(a, 6, 5, 0)

(***************************************************************************)
(* Stage 2: DnCNN inference, enhancer.py lines 55-61, dncnn.py.            *)
(* A kernel is the 9 weights of one 3x3 filter, row-major; the model has   *)
(* one feature channel.  The weights come from the weights file: the model *)
(* draws them from WeightChoices.                                          *)
(***************************************************************************)
NoWeights == [tag |-> "none", inK |-> <<>>, inB |-> 0, midK |-> <<>>, midB |-> 0,
              outK |-> <<>>, outB |-> 0]

\* the parameters the weights file supplies
Pretrained == [tag |-> "pretrained",
               inK  |-> <<0, 0, 0,  0, 1, 0,  0, 0, 0>>, inB  |-> -64,
               midK |-> <<0, 0, 0,  0, 1, 1,  0, 0, 0>>, midB |-> -32,
               outK |-> <<0, 1, 0,  0, 1, 0,  0, 0, 0>>, outB |-> 0]

\* the parameters nn.Conv2d's constructor leaves when the file supplies none
RandomInit == [tag |-> "random",
               inK  |-> <<0, 0, 0,  1, 0, 0,  0, 0, 0>>, inB  |-> 0,
               midK |-> <<0, 0, 0,  0, 1, 0,  0, 1, 0>>, midB |-> 0,
               outK |-> <<0, 0, 0,  0, -1, 0,  0, 0, 0>>, outB |-> 8]

WeightChoices == {Pretrained, RandomInit}

\* a sample outside the raster reads as 0 (padding = 1)
Padded(t, r, c) ==
    IF r < 1 \/ r > Rows(t) \/ c < 1 \/ c > Cols(t) THEN 0 ELSE At(t, r, c)

\* nn.Conv2d(.., 3, padding=1) at sample i
ConvAt(t, K, b, i) ==
    b + SumSeq([j \in 1..9 |->
            K[j] * Padded(t, RowOf(t, i) + ((j - 1) \div 3) - 1,
                             ColOf(t, i) + ((j - 1) % 3) - 1)])

Conv2d(t, K, b) == Array(t.shape, [i \in 1..Len(t.px) |-> ConvAt(t, K, b, i)])

ReLU(t) == Array(t.shape, [i \in 1..Len(t.px) |-> IF t.px[i] < 0 THEN 0 ELSE t.px[i]])

\* torch.from_numpy(img.astype(np.float32) / 255.0)[None, None]
ToTensor(a) == Array(<<1, 1>> \o a.shape, a.px)

\* DnCNN.forward, one statement at a time
ForwardHead(w, x) == ReLU(Conv2d(x, w.inK, w.inB))
ForwardBody(w, out) == ReLU(Conv2d(out, w.midK, w.midB))
ForwardTail(w, x, out) ==
    LET res == Conv2d(out, w.outK, w.outB)
    IN  Array(x.shape, [i \in 1..Len(x.px) |-> x.px[i] - res.px[i]])

\* faulty variant: a forward pass leaves other parameters behind
WeightsDrift(w) == IF w.tag = "pretrained" THEN RandomInit ELSE Pretrained

\* the parameters of the model after a forward pass: forward assigns none
WeightsAfterForward(w) == w

\* len(self.conv_list)
BodyLayers == ModelLayers - 2

RECURSIVE Body(_, _, _)
Body(w, out, n) == IF n = 0 THEN out ELSE Body(w, ForwardBody(w, out), n - 1)

\* model(inp) as one function
Forward(w, x) == ForwardTail(w, x, Body(w, ForwardHead(w, x), BodyLayers))

\* .squeeze(): every dimension of size 1 is dropped
Squeeze(t) == Array(SelectSeq(t.shape, LAMBDA d : d # 1), t.px)

\* (np.clip(out, 0, 1) * 255).astype(np.uint8)
ToUint8(t) == Array(t.shape, [i \in 1..Len(t.px) |-> Clamp(t.px[i], 0, 255)])

Denoise(w, a) == ToUint8(Squeeze(Forward(w, ToTensor(a))))

(***************************************************************************)
(* Stage 3: sharpening, enhancer.py lines 64-65.  skimage's unsharp_mask   *)
(* is image + amount * (image - gaussian(image, sigma = radius)).  The     *)
(* Gaussian is modelled by the separable 3-tap kernel (1, 2, 1)/4 with     *)
(* scipy's 'reflect' border; Blur16 is 16 times the blurred sample.        *)
(***************************************************************************)
Reflect(k, n) == IF k < 1 THEN 1 ELSE IF k > n THEN n ELSE k

Tap(d) == IF d = 0 THEN 2 ELSE 1

Blur16(a, i) ==
    SumSeq([j \in 1..9 |->
        LET dr == ((j - 1) \div 3) - 1
            dc == ((j - 1) % 3) - 1
        IN  Tap(dr) * Tap(dc) * At(a, Reflect(RowOf(a, i) + dr, Rows(a)),
                                      Reflect(ColOf(a, i) + dc, Cols(a)))])

\* 32 * (p + amount * (p - blurred)) with amount = an/2, blurred = b16/16
Unsharp32(p, b16, an) == 32 * p + an * (16 * p - b16)

\* faulty variant: unsharp_mask with its default amount = 1.0
SharpenAtDefaultAmount(a, i) == Clamp(Unsharp32(a.px[i], Blur16(a, i), 2) \div 32, 0, 255)

\* unsharp_mask(img / 255.0, radius=1.0, amount=1.5, preserve_range=True),
\* then (np.clip(sharp, 0, 1) * 255).astype(np.uint8)
SharpenAt(a, i) == Clamp(Unsharp32(a.px[i], Blur16(a, i), 3) \div 32, 0, 255)

UnsharpMask(a) == Array(a.shape, [i \in 1..Len(a.px) |-> SharpenAt(a, i)])

(***************************************************************************)
(* Stage 4: cv2.createCLAHE(clipLimit=2.0, tileGridSize=(8, 8)).apply.     *)
(* OpenCV's tiles, clipping and interpolation are replaced by one          *)
(* histogram equalisation of the whole raster: a pure function of the      *)
(* samples.  What is kept of cv2 is the treatment of the shape: a 2-D      *)
(* array keeps its shape, a 1-D array of n samples is taken as n rows of   *)
(* one column, and a 0-d value is no array and is refused.                 *)
(***************************************************************************)
ClaheAccepts(a) == Len(a.shape) >= 1

ClaheShape(a) == IF Len(a.shape) = 1 THEN <<a.shape[1], 1>> ELSE a.shape

Equalized(a, i) == (255 * Cardinality({j \in 1..Len(a.px) : a.px[j] <= a.px[i]})) \div Len(a.px)

ClaheApply(a) == Array(ClaheShape(a), [i \in 1..Len(a.px) |-> Equalized(a, i)])

(***************************************************************************)
(* enhance_image, one action per statement group.  A call c keeps the      *)
(* function's local variables in calls[c].                                 *)
(***************************************************************************)
None == Array(<<0>>, <<>>)

NoCall ==
    [pc |-> "idle", arg |-> None, img |-> None, inp |-> None, act |-> None, k |-> 0,
     out |-> None, sharp |-> None, enhanced |-> None, trace |-> <<>>]

NewCall(a) ==
    [pc |-> "called", arg |-> a, img |-> a, inp |-> None, act |-> None, k |-> 0,
     out |-> None, sharp |-> None, enhanced |-> None, trace |-> <<>>]

Stage(name, in, out) == [stage |-> name, in |-> in, out |-> out]

\* faulty variant: the sharpening reads the function's argument, not the denoised image
SharpenTheArgument(c) == c.arg

\* the image each stage reads: the variable the statement names
NormalizeInput(c) == c.img
InferInput(c) == c.img
SharpenInput(c) == c.img
ClaheInput(c) == c.sharp

OtherUnchanged == UNCHANGED <<proc, disk, reqs, rec, ext>>

\* the caller passes an image, one of the set S
Call(r, S) ==
    /\ calls[r].pc = "idle"
    /\ \E a \in S : calls' = [calls EXCEPT ![r] = NewCall(a)]
    /\ UNCHANGED weights
    /\ OtherUnchanged

\* lines 46-52
Normalize(r) ==
    /\ calls[r].pc = "called"
    /\ LET c == calls[r]
           res == NormalizeImage(NormalizeInput(c))
       IN  calls' = [calls EXCEPT ![r] =
                [c EXCEPT !.pc = "normalized", !.img = res,
                          !.trace = Append(@, Stage("normalize", NormalizeInput(c), res))]]
    /\ UNCHANGED weights
    /\ OtherUnchanged

\* lines 55-56 and the first statement of forward (dncnn.py line 15)
InferHead(r) ==
    /\ calls[r].pc = "normalized"
    /\ weights.tag # "none"
    /\ LET c == calls[r]
           x == ToTensor(InferInput(c))
       IN  calls' = [calls EXCEPT ![r] =
                [c EXCEPT !.pc = "forward", !.inp = x, !.k = 0,
                          !.act = ForwardHead(weights, x)]]
    /\ UNCHANGED weights
    /\ OtherUnchanged

\* dncnn.py lines 16-17: one iteration of the loop over conv_list
InferBody(r) ==
    /\ calls[r].pc = "forward"
    /\ calls[r].k < BodyLayers
    /\ LET c == calls[r]
       IN  calls' = [calls EXCEPT ![r] =
                [c EXCEPT !.k = @ + 1, !.act = ForwardBody(weights, c.act)]]
    /\ UNCHANGED weights
    /\ OtherUnchanged

\* dncnn.py lines 18-19, then enhancer.py lines 59 and 61
InferTail(r) ==
    /\ calls[r].pc = "forward"
    /\ calls[r].k = BodyLayers
    /\ LET c == calls[r]
           y == ForwardTail(weights, c.inp, c.act)
           res == ToUint8(Squeeze(y))
       IN  calls' = [calls EXCEPT ![r] =
                [c EXCEPT !.pc = "denoised", !.out = y, !.img = res,
                          !.trace = Append(@, Stage("infer", InferInput(c), res))]]
    /\ weights' = WeightsAfterForward(weights)
    /\ OtherUnchanged

\* lines 64-65
Sharpen(r) ==
    /\ calls[r].pc = "denoised"
    /\ LET c == calls[r]
           res == UnsharpMask(SharpenInput(c))
       IN  calls' = [calls EXCEPT ![r] =
                [c EXCEPT !.pc = "sharpened", !.sharp = res,
                          !.trace = Append(@, Stage("sharpen", SharpenInput(c), res))]]
    /\ UNCHANGED weights
    /\ OtherUnchanged

\* lines 67-70
Clahe(r) ==
    /\ calls[r].pc = "sharpened"
    /\ LET c == calls[r]
       IN  IF ClaheAccepts(ClaheInput(c))
           THEN LET res == ClaheApply(ClaheInput(c))
                IN  calls' = [calls EXCEPT ![r] =
                        [c EXCEPT !.pc = "returned", !.enhanced = res,
                                  !.trace = Append(@, Stage("clahe", ClaheInput(c), res))]]
           ELSE calls' = [calls EXCEPT ![r] = [c EXCEPT !.pc = "raised"]]
    /\ UNCHANGED weights
    /\ OtherUnchanged

(***************************************************************************)
(* Process start-up: main.py, extract.py line 5 and the module body of     *)
(* enhancer.py (lines 11-39).  disk is the file at CACHE_PATH:             *)
(*   "absent"   no file                                                    *)
(*   "good"     a state dict with the model's parameters                   *)
(*   "nokeys"   a state dict without the model's parameter names           *)
(*   "badshape" a state dict whose tensors have other shapes               *)
(*   "corrupt"  a file torch.load cannot read                              *)
(***************************************************************************)
DiskStates == {"absent", "good", "nokeys", "badshape", "corrupt"}

\* what the URL can deliver: a state dict, or the download fails
FetchOutcomes == {"fail", "good", "nokeys", "badshape"}

\* torch.save: the file is written, nothing is written, or a part is written
SaveOutcomes == {"saved", "nofile", "partial"}

NewProcess(starts, fetches) ==
    [pc |-> "main", ret |-> "include", modules |-> {}, starts |-> starts,
     fetches |-> fetches, loads |-> 0, state |-> "none", problem |-> "none",
     loaded |-> NoWeights]

NoProcess == NewProcess(0, 0)

NewRequest == [pc |-> "idle", used |-> "none"]

NoRequests == [q \in 1..MaxRequests |-> NewRequest]

\* faulty variant: every import statement runs the module body
NeverCached(mods, m) == FALSE

\* faulty variant: the cache file is never found
CacheNeverFound(d) == FALSE

\* Python's import of a module already in sys.modules does not run its body
ModuleCached(mods, m) == m \in mods

\* os.path.exists(CACHE_PATH), enhancer.py line 15
CacheExists(d) == d # "absent"

\* model.load_state_dict(state, strict=False), enhancer.py line 30: missing
\* names are ignored, tensors of another shape raise
LoadStateDictRaises(st) == st = "badshape"

LoadStateDict(st) == IF st = "good" THEN Pretrained ELSE RandomInit

StartupUnchanged == UNCHANGED <<calls, rec, ext>>

\* main.py line 26 -> extract.py line 5: from app.services.enhancer import ..
ImportRouters ==
    /\ proc.pc = "main"
    /\ proc' = IF ModuleCached(proc.modules, "enhancer")
               THEN [proc EXCEPT !.pc = "include"]
               ELSE [proc EXCEPT !.pc = "enh_exists", !.ret = "include"]
    /\ UNCHANGED <<weights, disk, reqs>>
    /\ StartupUnchanged

\* enhancer.py lines 11-15: the module body starts and tests the cache
CheckCache ==
    /\ proc.pc = "enh_exists"
    /\ proc' = [proc EXCEPT !.loads = @ + 1,
                            !.pc = IF CacheExists(disk) THEN "enh_read" ELSE "enh_fetch"]
    /\ UNCHANGED <<weights, disk, reqs>>
    /\ StartupUnchanged

\* enhancer.py lines 17-20: torch.hub.load_state_dict_from_url
Fetch ==
    /\ proc.pc = "enh_fetch"
    /\ \E o \in FetchOutcomes :
          proc' = IF o = "fail"
                  THEN [proc EXCEPT !.fetches = @ + 1, !.pc = "dead", !.problem = "download"]
                  ELSE [proc EXCEPT !.fetches = @ + 1, !.pc = "enh_save", !.state = o]
    /\ UNCHANGED <<weights, disk, reqs>>
    /\ StartupUnchanged

\* enhancer.py line 21: torch.save(state, CACHE_PATH)
Save ==
    /\ proc.pc = "enh_save"
    /\ \E o \in SaveOutcomes :
          /\ disk' = IF o = "saved" THEN proc.state
                     ELSE IF o = "partial" THEN "corrupt" ELSE disk
          /\ proc' = IF o = "saved"
                     THEN [proc EXCEPT !.pc = "enh_build"]
                     ELSE [proc EXCEPT !.pc = "dead", !.problem = "save"]
    /\ UNCHANGED <<weights, reqs>>
    /\ StartupUnchanged

\* enhancer.py line 24: torch.load(CACHE_PATH)
ReadCache ==
    /\ proc.pc = "enh_read"
    /\ proc' = IF disk = "corrupt"
               THEN [proc EXCEPT !.pc = "dead", !.problem = "read"]
               ELSE [proc EXCEPT !.pc = "enh_build", !.state = disk]
    /\ UNCHANGED <<weights, disk, reqs>>
    /\ StartupUnchanged

\* enhancer.py lines 29-30: DnCNN(...), load_state_dict(state, strict=False)
BuildModel ==
    /\ proc.pc = "enh_build"
    /\ IF LoadStateDictRaises(proc.state)
       THEN /\ proc' = [proc EXCEPT !.pc = "dead", !.problem = "shape"]
            /\ UNCHANGED weights
       ELSE /\ weights' = LoadStateDict(proc.state)
            /\ proc' = [proc EXCEPT !.pc = "enh_warm",
                            !.problem = IF proc.state = "good" THEN "none" ELSE "nokeys"]
    /\ UNCHANGED <<disk, reqs>>
    /\ StartupUnchanged

\* enhancer.py lines 32-39: .to(device).eval() and the warm-up pass; the
\* import statement that ran the body then returns
WarmUp ==
    /\ proc.pc = "enh_warm"
    /\ weights' = WeightsAfterForward(weights)
    /\ proc' = [proc EXCEPT !.pc = proc.ret, !.modules = @ \cup {"enhancer"},
                            !.loaded = weights']
    /\ UNCHANGED <<disk, reqs>>
    /\ StartupUnchanged

\* main.py lines 23-30: FastAPI(...) and include_router
IncludeRouters ==
    /\ proc.pc = "include"
    /\ proc' = [proc EXCEPT !.pc = "lifespan"]
    /\ UNCHANGED <<weights, disk, reqs>>
    /\ StartupUnchanged

\* main.py lines 9-17: the lifespan start-up imports enhancer again
Lifespan ==
    /\ proc.pc = "lifespan"
    /\ proc' = IF ModuleCached(proc.modules, "enhancer")
               THEN [proc EXCEPT !.pc = "serving"]
               ELSE [proc EXCEPT !.pc = "enh_exists", !.ret = "serving"]
    /\ UNCHANGED <<weights, disk, reqs>>
    /\ StartupUnchanged

\* extract.py lines 13-34: a request arrives and reaches enhance_image
Receive(q) ==
    /\ proc.pc = "serving"
    /\ reqs[q].pc = "idle"
    /\ reqs' = [reqs EXCEPT ![q].pc = "enhancing"]
    /\ UNCHANGED <<proc, weights, disk>>
    /\ StartupUnchanged

\* enhancer.py lines 58-59: model(inp)
Infer(q) ==
    /\ proc.pc = "serving"
    /\ reqs[q].pc = "enhancing"
    /\ reqs' = [reqs EXCEPT ![q] = [pc |-> "inferred", used |-> weights.tag]]
    /\ weights' = WeightsAfterForward(weights)
    /\ UNCHANGED <<proc, disk>>
    /\ StartupUnchanged

\* extract.py lines 36-48: the rest of the handler
Respond(q) ==
    /\ proc.pc = "serving"
    /\ reqs[q].pc = "inferred"
    /\ reqs' = [reqs EXCEPT ![q].pc = "done"]
    /\ UNCHANGED <<proc, weights, disk>>
    /\ StartupUnchanged

\* the process ends (the import error, or a shutdown) and is started again
Restart ==
    /\ proc.pc \in {"dead", "serving"}
    /\ proc.starts < MaxStarts
    /\ proc' = NewProcess(proc.starts + 1, proc.fetches)
    /\ weights' = NoWeights
    /\ reqs' = NoRequests
    /\ UNCHANGED disk
    /\ StartupUnchanged

(***************************************************************************)
(* Structured-response recovery.  The generator's text is a sequence of    *)
(* tokens; a token is [t |-> kind, v |-> text]:                            *)
(*   "{" "}" "[" "]" ","   the JSON punctuation                            *)
(*   "key"    a member name with its colon,  "name":                       *)
(*   "str"    a string literal, "num" a number, "lit" null / true / false  *)
(*   "word"   prose without braces, "ws" white space                       *)
(*   "fence_json", "fence"   the markdown fences, with and without json    *)
(* One token counts as one character of the text.                          *)
(***************************************************************************)
Tok(t, v) == [t |-> t, v |-> v]
LBrace == Tok("{", "")
RBrace == Tok("}", "")
LBracket == Tok("[", "")
RBracket == Tok("]", "")
Comma == Tok(",", "")
KeyTok(k) == Tok("key", k)
Word(x) == Tok("word", x)
Ws == Tok("ws", "")
FenceJson == Tok("fence_json", "")
Fence == Tok("fence", "")

\* JSON values, as json.loads builds them
JStr(x) == [t |-> "str", s |-> x]
JNum(x) == [t |-> "num", s |-> x]
JLit(x) == [t |-> "lit", s |-> x]
JObj(m) == [t |-> "obj", m |-> m]
JArr(a) == [t |-> "arr", a |-> a]
JNull == JLit("null")
EmptyMap == [k \in {} |-> JNull]

IsDict(v) == v.t = "obj"
IsList(v) == v.t = "arr"
Has(v, k) == k \in DOMAIN v.m
\* faulty variant: an absent key reads as the empty string
GetOrEmptyString(v, k) == IF Has(v, k) THEN v.m[k] ELSE JStr("")

\* dict.get(k): None when the key is absent
Get(v, k) == IF Has(v, k) THEN v.m[k] ELSE JNull
\* faulty variant: the assignment drops the other keys
PutAlone(v, k, x) == JObj(k :> x)

\* d[k] = x
Put(v, k, x) == JObj((k :> x) @@ v.m)

\* str.replace(marker, ""): every occurrence of the marker is removed
Remove(text, marker) == SelectSeq(text, LAMBDA tok : tok # marker)

RECURSIVE LStrip(_)
LStrip(text) == IF text # <<>> /\ Head(text).t = "ws" THEN LStrip(Tail(text)) ELSE text

RECURSIVE RStrip(_)
RStrip(text) ==
    IF text # <<>> /\ text[Len(text)].t = "ws" THEN RStrip(SubSeq(text, 1, Len(text) - 1))
    ELSE text

\* str.strip()
Strip(text) == RStrip(LStrip(text))

\* str.find / str.rfind: the 1-based place of the first / last occurrence,
\* 0 where Python returns -1
Find(text, tok) ==
    IF \E i \in 1..Len(text) : text[i] = tok
    THEN CHOOSE i \in 1..Len(text) : text[i] = tok /\ \A j \in 1..(i - 1) : text[j] # tok
    ELSE 0

RFind(text, tok) ==
    IF \E i \in 1..Len(text) : text[i] = tok
    THEN CHOOSE i \in 1..Len(text) : text[i] = tok /\ \A j \in (i + 1)..Len(text) : text[j] # tok
    ELSE 0

\* text[start:end + 1] for 0-based start, end: the places start..end, 1-based
Slice(text, start, end) == SubSeq(text, start, end)

\* faulty variant: the text is not cut
WholeText(text, limit) == text

\* raw_output[:limit]
Prefix(text, limit) == SubSeq(text, 1, IF Len(text) < limit THEN Len(text) ELSE limit)

(***************************************************************************)
(* json.loads: a recursive-descent parser over the tokens.  White space is *)
(* allowed between tokens; a later member of the same name replaces an     *)
(* earlier one; text after the value is an error.                          *)
(***************************************************************************)
ParseFail == [ok |-> FALSE, val |-> JNull, next |-> 0]
ParseOk(v, n) == [ok |-> TRUE, val |-> v, next |-> n]

RECURSIVE SkipWs(_, _)
SkipWs(toks, i) == IF i <= Len(toks) /\ toks[i].t = "ws" THEN SkipWs(toks, i + 1) ELSE i

RECURSIVE ParseValue(_, _)
RECURSIVE ParseMembers(_, _, _)
RECURSIVE ParseElems(_, _, _)

ParseValue(toks, i0) ==
    LET i == SkipWs(toks, i0)
    IN  IF i > Len(toks) THEN ParseFail
        ELSE IF toks[i].t = "{"
        THEN LET j == SkipWs(toks, i + 1)
             IN  IF j <= Len(toks) /\ toks[j].t = "}" THEN ParseOk(JObj(EmptyMap), j + 1)
                 ELSE ParseMembers(toks, j, EmptyMap)
        ELSE IF toks[i].t = "["
        THEN LET j == SkipWs(toks, i + 1)
             IN  IF j <= Len(toks) /\ toks[j].t = "]" THEN ParseOk(JArr(<<>>), j + 1)
                 ELSE ParseElems(toks, j, <<>>)
        ELSE IF toks[i].t = "str" THEN ParseOk(JStr(toks[i].v), i + 1)
        ELSE IF toks[i].t = "num" THEN ParseOk(JNum(toks[i].v), i + 1)
        ELSE IF toks[i].t = "lit" THEN ParseOk(JLit(toks[i].v), i + 1)
        ELSE ParseFail

\* at i: a member is expected; acc holds the members read so far
ParseMembers(toks, i, acc) ==
    IF i > Len(toks) \/ toks[i].t # "key" THEN ParseFail
    ELSE LET r == ParseValue(toks, i + 1)
         IN  IF ~r.ok THEN ParseFail
             ELSE LET acc2 == (toks[i].v :> r.val) @@ acc
                      j == SkipWs(toks, r.next)
                  IN  IF j > Len(toks) THEN ParseFail
                      ELSE IF toks[j].t = "," THEN ParseMembers(toks, SkipWs(toks, j + 1), acc2)
                      ELSE IF toks[j].t = "}" THEN ParseOk(JObj(acc2), j + 1)
                      ELSE ParseFail

\* at i: an element is expected; acc holds the elements read so far
ParseElems(toks, i, acc) ==
    LET r == ParseValue(toks, i)
    IN  IF ~r.ok THEN ParseFail
        ELSE LET acc2 == Append(acc, r.val)
                 j == SkipWs(toks, r.next)
             IN  IF j > Len(toks) THEN ParseFail
                 ELSE IF toks[j].t = "," THEN ParseElems(toks, SkipWs(toks, j + 1), acc2)
                 ELSE IF toks[j].t = "]" THEN ParseOk(JArr(acc2), j + 1)
                 ELSE ParseFail

\* json.loads(text): [ok, val]; ok = FALSE stands for json.JSONDecodeError
JsonLoads(text) ==
    LET r == ParseValue(text, 1)
    IN  IF r.ok /\ SkipWs(text, r.next) > Len(text)
        THEN [ok |-> TRUE, val |-> r.val]
        ELSE [ok |-> FALSE, val |-> JNull]

NotParsed == [ok |-> FALSE, val |-> JNull]

(***************************************************************************)
(* What a handler answers.  kind "return" is a normal return (status 200), *)
(* kind "raise" an HTTPException; detail names the message, attached is    *)
(* the generator text that the answer carries, parsed what json.loads gave *)
(* the handler (NotParsed when it was not reached or raised).              *)
(***************************************************************************)
Returned(body, attached, parsed) ==
    [kind |-> "return", status |-> 200, body |-> body, detail |-> "",
     attached |-> attached, parsed |-> parsed]

Raised(status, detail, attached, parsed) ==
    [kind |-> "raise", status |-> status, body |-> JNull, detail |-> detail,
     attached |-> attached, parsed |-> parsed]

NoOutcome ==
    [kind |-> "none", status |-> 0, body |-> JNull, detail |-> "", attached |-> <<>>,
     parsed |-> NotParsed]

\* message.content of the generator's answer: a string, None, or a list of blocks
StrContent(text) == [kind |-> "str", text |-> text, blocks |-> <<>>]
NoneContent == [kind |-> "none", text |-> <<>>, blocks |-> <<>>]
ListContent(blocks) == [kind |-> "list", text |-> <<>>, blocks |-> blocks]
\* no generator call was made
NoContent == [kind |-> "uncalled", text |-> <<>>, blocks |-> <<>>]

\* not x
Falsy(v) ==
    \/ v \in {JNull, JLit("false"), JStr(""), JNum("0")}
    \/ (IsList(v) /\ v.a = <<>>)
    \/ (IsDict(v) /\ DOMAIN v.m = {})

VALID_LANGUAGES == <<"ru", "en", "uz", "kz", "ko">>
LanguageCodes == {VALID_LANGUAGES[i] : i \in DOMAIN VALID_LANGUAGES}

\* the fences are removed, then the white space at both ends
StripFences(text) == Strip(Remove(Remove(text, FenceJson), Fence))

(***************************************************************************)
(* extract_vin_fields: the whole fence-stripped text is parsed; whatever   *)
(* goes wrong in the try block ends in the fallback record, returned       *)
(* normally.                                                               *)
(***************************************************************************)
VinFields == {"vin", "car_model", "manufacturer", "engine_cc", "weight", "manufacture_date"}

\* "\n".join(the text of the text blocks)
RECURSIVE JoinBlocks(_)
JoinBlocks(blocks) ==
    IF blocks = <<>> THEN <<>>
    ELSE IF Head(blocks).type # "text" THEN JoinBlocks(Tail(blocks))
    ELSE LET rest == JoinBlocks(Tail(blocks))
         IN  IF \E i \in DOMAIN Tail(blocks) : Tail(blocks)[i].type = "text"
             THEN Head(blocks).text \o <<Ws>> \o rest
             ELSE Head(blocks).text

\* raw_text: str(None) is the word None
VinRawText(content) ==
    IF content.kind = "list" THEN Strip(JoinBlocks(content.blocks))
    ELSE IF content.kind = "none" THEN <<Word("None")>>
    ELSE Strip(content.text)

VinFallback == JObj(("error" :> JStr("Invalid JSON format")) @@ [k \in VinFields |-> JNull])

extract_vin_fields(content) ==
    LET raw_text == VinRawText(content)
        parsed == JsonLoads(StripFences(raw_text))
    IN  IF parsed.ok /\ IsDict(parsed.val)
        THEN Returned(JObj([k \in VinFields |-> Get(parsed.val, k)]), raw_text, parsed)
        ELSE Returned(VinFallback, raw_text, parsed)

(***************************************************************************)
(* translate_text.                                                         *)
(***************************************************************************)
TranslateRawLimit == 200

TranslateRecover(targets, content) ==
    LET raw_output == Strip(content.text)
        cleaned == StripFences(raw_output)
        start == Find(cleaned, LBrace)
        end == RFind(cleaned, RBrace)
        shown == Prefix(raw_output, TranslateRawLimit)
        translations_json == JsonLoads(Slice(cleaned, start, end))
    IN  IF start = 0 \/ end = 0 THEN Raised(500, "no_json", shown, NotParsed)
        ELSE IF ~translations_json.ok THEN Raised(500, "json_decode", shown, translations_json)
        ELSE IF \E i \in DOMAIN targets : ~Has(translations_json.val, targets[i].s)
        THEN Raised(500, "missing_translations", shown, translations_json)
        ELSE Returned(JObj("translations" :> translations_json.val), <<>>, translations_json)

\* the targets that are left once the source is removed from them
TranslateTargets(data) ==
    SelectSeq(Get(data, "targets").a, LAMBDA t : t # Get(data, "source"))

\* the request passes the checks and asks for a language other than the source
TranslateCallsGenerator(data) ==
    /\ ~Falsy(Get(data, "source"))
    /\ ~Falsy(Get(data, "text"))
    /\ ~Falsy(Get(data, "targets"))
    /\ IsList(Get(data, "targets"))
    /\ Get(data, "source") \in {JStr(l) : l \in LanguageCodes}
    /\ \A i \in DOMAIN Get(data, "targets").a :
            Get(data, "targets").a[i] \in {JStr(l) : l \in LanguageCodes}
    /\ TranslateTargets(data) # <<>>

translate_text(data, content) ==
    LET source == Get(data, "source")
        text == Get(data, "text")
        targets == Get(data, "targets")
    IN  IF Falsy(source) THEN Raised(400, "source_required", <<>>, NotParsed)
        ELSE IF Falsy(text) THEN Raised(400, "text_required", <<>>, NotParsed)
        ELSE IF Falsy(targets) \/ ~IsList(targets)
        THEN Raised(400, "targets_required", <<>>, NotParsed)
        ELSE IF source \notin {JStr(l) : l \in LanguageCodes}
        THEN Raised(400, "invalid_source", <<>>, NotParsed)
        ELSE IF \E i \in DOMAIN targets.a : targets.a[i] \notin {JStr(l) : l \in LanguageCodes}
        THEN Raised(400, "invalid_target", <<>>, NotParsed)
        ELSE IF TranslateTargets(data) = <<>>
        THEN Returned(JObj("translations" :> JObj(source.s :> text)), <<>>, NotParsed)
        \* content.strip() on None or a list: AttributeError, the outer handler
        ELSE IF content.kind # "str" THEN Raised(500, "translation_error", <<>>, NotParsed)
        ELSE TranslateRecover(TranslateTargets(data), content)

(***************************************************************************)
(* generate_listing.  The parsed listing is checked and changed in place:  *)
(* a ValueError is answered as "invalid_structure", any other exception of *)
(* the try block (a TypeError on a value of the wrong kind) as             *)
(* "processing_error".                                                     *)
(***************************************************************************)
ListingRawLimit == 500

RequiredTextFields == <<"make", "model", "trim", "color", "interiorColor", "description">>

\* "k in v" raises TypeError unless v is a dict, a list or a string
Iterable(v) == v.t \in {"obj", "arr", "str"}

\* k in v: a key of a dict, an element of a list, a part of a string (the
\* strings of the model are whole words: a part is the string itself)
Contains(v, k) ==
    IF IsDict(v) THEN Has(v, k)
    ELSE IF IsList(v) THEN \E i \in DOMAIN v.a : v.a[i] = JStr(k)
    ELSE v.s = k

\* faulty variant: no language is ever reported missing
NoLanguageMissing(v) == {}

\* [lang for lang in required_languages if lang not in v]
MissingLanguages(v) == {l \in LanguageCodes : ~Contains(v, l)}

\* {lang: "" for lang in required_languages}
EmptyLanguages == JObj([l \in LanguageCodes |-> JStr("")])

\* faulty variant: the missing languages are left out
FillNothing(v) == v

\* for lang in missing_langs: maint_history[lang] = ""
FillLanguages(v) ==
    JObj([l \in DOMAIN v.m \cup MissingLanguages(v) |-> IF Has(v, l) THEN v.m[l] ELSE JStr("")])

\* the loop over required_text_fields: "" when every field passes
RECURSIVE CheckTextFields(_, _)
CheckTextFields(text, fields) ==
    IF fields = <<>> THEN ""
    ELSE IF ~Iterable(text) THEN "type_error"
    ELSE IF ~Contains(text, Head(fields)) THEN "missing_text_field"
    ELSE IF ~IsDict(text) THEN "type_error"
    ELSE IF ~IsDict(text.m[Head(fields)]) THEN "text_field_not_object"
    ELSE IF MissingLanguages(text.m[Head(fields)]) # {} THEN "text_field_missing_languages"
    ELSE CheckTextFields(text, Tail(fields))

\* the loop over additionalOptions: "" when every entry passes
RECURSIVE CheckOptions(_)
CheckOptions(options) ==
    IF options = <<>> THEN ""
    ELSE IF ~IsDict(Head(options)) THEN "option_not_object"
    ELSE IF MissingLanguages(Head(options)) # {} THEN "option_missing_languages"
    ELSE CheckOptions(Tail(options))

Checked(err, val) == [err |-> err, val |-> val]

\* lines 297-307
ValidateOptions(listing) ==
    IF ~Has(listing, "additionalOptions") THEN Checked("", Put(listing, "additionalOptions", JArr(<<>>)))
    ELSE IF ~IsList(listing.m["additionalOptions"]) THEN Checked("options_not_array", listing)
    ELSE Checked(CheckOptions(listing.m["additionalOptions"].a), listing)

\* lines 310-324
ValidateInspection(listing) ==
    IF ~Has(listing, "inspectionHistory")
    THEN Checked("", Put(listing, "inspectionHistory",
                         JObj(("accidents" :> JLit("false")) @@ ("maintenanceHistory" :> EmptyLanguages))))
    ELSE LET history == listing.m["inspectionHistory"]
         IN  IF ~IsDict(history) THEN Checked("type_error", listing)
             ELSE IF ~Has(history, "maintenanceHistory")
             THEN Checked("", Put(listing, "inspectionHistory",
                                  Put(history, "maintenanceHistory", EmptyLanguages)))
             ELSE LET maint_history == history.m["maintenanceHistory"]
                  IN  IF ~Iterable(maint_history) THEN Checked("type_error", listing)
                      ELSE IF MissingLanguages(maint_history) = {} THEN Checked("", listing)
                      ELSE IF ~IsDict(maint_history) THEN Checked("type_error", listing)
                      ELSE Checked("", Put(listing, "inspectionHistory",
                                           Put(history, "maintenanceHistory",
                                               FillLanguages(maint_history))))

\* faulty variant: a listing without specs is left without specs
SpecsLeftOut(listing) == listing

\* lines 327-328
EnsureSpecs(listing) == IF Has(listing, "specs") THEN listing ELSE Put(listing, "specs", JObj(EmptyMap))

\* lines 277-328: the error, or "" and the listing as it is returned
ValidateListing(listing) ==
    IF ~Has(listing, "text") THEN Checked("missing_text", listing)
    ELSE LET textError == CheckTextFields(listing.m["text"], RequiredTextFields)
             options == ValidateOptions(listing)
             inspection == ValidateInspection(options.val)
         IN  IF textError # "" THEN Checked(textError, listing)
             ELSE IF options.err # "" THEN options
             ELSE IF inspection.err # "" THEN inspection
             ELSE Checked("", EnsureSpecs(inspection.val))

ListingRecover(content) ==
    LET raw_output == Strip(content.text)
        cleaned == StripFences(raw_output)
        start == Find(cleaned, LBrace)
        end == RFind(cleaned, RBrace)
        shown == Prefix(raw_output, ListingRawLimit)
        listing_json == JsonLoads(Slice(cleaned, start, end))
        checked == ValidateListing(listing_json.val)
    IN  IF start = 0 \/ end = 0 THEN Raised(500, "no_json", shown, NotParsed)
        ELSE IF ~listing_json.ok THEN Raised(500, "json_decode", shown, listing_json)
        ELSE IF checked.err = "type_error" THEN Raised(500, "processing_error", shown, listing_json)
        ELSE IF checked.err # "" THEN Raised(500, checked.err, shown, listing_json)
        ELSE Returned(checked.val, <<>>, listing_json)

\* strings that str.strip() empties
BlankStrings == {"", " "}

ListingCallsGenerator(data) ==
    /\ Get(data, "text").t = "str"
    /\ Get(data, "text").s \notin BlankStrings

generate_listing(data, content) ==
    IF ~ListingCallsGenerator(data) THEN Raised(400, "text_required", <<>>, NotParsed)
    \* content.strip() on None or a list: AttributeError, the outer handler
    ELSE IF content.kind # "str" THEN Raised(500, "listing_generation_error", <<>>, NotParsed)
    ELSE ListingRecover(content)

(***************************************************************************)
(* generate_consignee.  The braces are looked for in the text as it came   *)
(* (the fences stay); every exception of the handler, the HTTPException of *)
(* the country check and of the recovery included, is caught at the end    *)
(* and raised again with status 500 and the text of the exception.         *)
(***************************************************************************)
valid_countries == {"Russia", "Kazakhstan", "Kyrgyzstan", "Uzbekistan"}

\* generate_iin and generate_phone draw digits at random; one value stands for
\* each here
GeneratedIin == JStr("iin")
GeneratedTel == JStr("tel")

ConsigneeCallsGenerator(data) == Get(data, "country") \in {JStr(c) : c \in valid_countries}

\* except Exception as e: raise HTTPException(status_code=500, detail=str(e))
Rewrap(outcome) == IF outcome.kind = "raise" THEN [outcome EXCEPT !.status = 500] ELSE outcome

ConsigneeRecover(country, content) ==
    LET raw_output == Strip(content.text)
        start == Find(raw_output, LBrace)
        end == RFind(raw_output, RBrace)
        data_json == JsonLoads(Slice(raw_output, start, end))
    IN  IF start = 0 \/ end = 0 THEN Raised(500, "invalid_json", raw_output, NotParsed)
        ELSE IF ~data_json.ok THEN Raised(500, "invalid_json", raw_output, data_json)
        ELSE Returned(JObj(("country" :> country)
                           @@ ("data" :> Put(Put(data_json.val, "consignee_iin", GeneratedIin),
                                             "consignee_tel", GeneratedTel))
                           @@ ("generated_at" :> JStr("now"))),
                      <<>>, data_json)

generate_consignee(data, content) ==
    Rewrap(IF ~ConsigneeCallsGenerator(data) THEN Raised(400, "invalid_country", <<>>, NotParsed)
           ELSE IF content.kind # "str" THEN Raised(500, "attribute_error", <<>>, NotParsed)
           ELSE ConsigneeRecover(Get(data, "country"), content))

(***************************************************************************)
(* invoice.py: generate_docx and generate_docx_from_data.  What the        *)
(* template, the images and the document hold does not change the status   *)
(* of the answer; the calls to the network and to python-docx are kept as  *)
(* their outcome: the template could not be loaded, a later statement      *)
(* raised, or all went well.                                               *)
(***************************************************************************)
\* a request body that request.json() cannot parse
NotJson == [t |-> "invalid", s |-> ""]

DocxOutcomes == {"ok", "no_template", "error"}

\* a or b
Or(a, b) == IF ~Falsy(a) THEN a ELSE b

\* lines 40-329
generate_docx_from_data(data, outcome) ==
    LET template_url == Or(Get(data, "file_url"), Get(data, "template_url"))
    IN  Rewrap(IF Falsy(template_url) THEN Raised(400, "url_required", <<>>, NotParsed)
               ELSE IF outcome = "no_template"
               THEN Raised(400, "template_download_failed", <<>>, NotParsed)
               ELSE IF outcome = "error" THEN Raised(500, "generation_error", <<>>, NotParsed)
               ELSE Returned(JObj(("message" :> JStr("Invoice generated successfully"))
                                  @@ ("download_url" :> JStr("s3_url"))),
                             <<>>, NotParsed))

\* lines 19-34
generate_docx(body, outcome) ==
    Rewrap(IF body = NotJson THEN Raised(500, "json_error", <<>>, NotParsed)
           ELSE IF ~IsDict(body) \/ Falsy(body)
           THEN Raised(400, "body_required", <<>>, NotParsed)
           ELSE generate_docx_from_data(body, outcome))

(***************************************************************************)
(* The four call sites as steps: one request, the generator's answer to it *)
(* when the handler asks for one, and what the handler answers.            *)
(***************************************************************************)
RecIdle == [pc |-> "idle", site |-> "", data |-> JNull, content |-> NoContent, outcome |-> NoOutcome]

Handled(site, data, content, outcome) ==
    [pc |-> "done", site |-> site, data |-> data, content |-> content, outcome |-> outcome]

RecoveryUnchanged == UNCHANGED <<calls, weights, proc, disk, reqs, ext>>

ExtractVinFields(contents) ==
    /\ rec.pc = "idle"
    /\ \E content \in contents :
            rec' = Handled("vin", JNull, content, extract_vin_fields(content))
    /\ RecoveryUnchanged

TranslateText(requests, contents) ==
    /\ rec.pc = "idle"
    /\ \E data \in requests :
        \E content \in (IF TranslateCallsGenerator(data) THEN contents ELSE {NoContent}) :
            rec' = Handled("translation", data, content, translate_text(data, content))
    /\ RecoveryUnchanged

GenerateListing(requests, contents) ==
    /\ rec.pc = "idle"
    /\ \E data \in requests :
        \E content \in (IF ListingCallsGenerator(data) THEN contents ELSE {NoContent}) :
            rec' = Handled("listing", data, content, generate_listing(data, content))
    /\ RecoveryUnchanged

GenerateConsignee(requests, contents) ==
    /\ rec.pc = "idle"
    /\ \E data \in requests :
        \E content \in (IF ConsigneeCallsGenerator(data) THEN contents ELSE {NoContent}) :
            rec' = Handled("consignee", data, content, generate_consignee(data, content))
    /\ RecoveryUnchanged

\* POST /generate-docx
GenerateDocx(bodies) ==
    /\ rec.pc = "idle"
    /\ \E body \in bodies, outcome \in DocxOutcomes :
            rec' = Handled("docx", body, NoContent, generate_docx(body, outcome))
    /\ RecoveryUnchanged

\* a call of generate_docx_from_data with a dict
GenerateDocxFromData(bodies) ==
    /\ rec.pc = "idle"
    /\ \E data \in {b \in bodies : IsDict(b)}, outcome \in DocxOutcomes :
            rec' = Handled("docx_from_data", data, NoContent, generate_docx_from_data(data, outcome))
    /\ RecoveryUnchanged

(***************************************************************************)
(* datagen.py: generate_phone.  A string is the sequence of its            *)
(* characters; random.choice and random.randint are the caller's choice of *)
(* a prefix and of the digits.                                             *)
(***************************************************************************)
operator_prefixes ==
    "Russia" :>
        [prefixes |-> <<<<"+", "7", "9", "0", "0">>,
              <<"+", "7", "9", "1", "1">>,
              <<"+", "7", "9", "2", "6">>,
              <<"+", "7", "9", "3", "7">>,
              <<"+", "7", "9", "5", "2">>,
              <<"+", "7", "9", "6", "5">>,
              <<"+", "7", "9", "8", "1">>>>,
         subscriber_len |-> 7]
    @@
    "Kazakhstan" :>
        [prefixes |-> <<<<"+", "7", "7", "0", "1">>,
              <<"+", "7", "7", "0", "5">>,
              <<"+", "7", "7", "0", "7">>,
              <<"+", "7", "7", "0", "8">>,
              <<"+", "7", "7", "1", "2">>>>,
         subscriber_len |-> 7]
    @@
    "Kyrgyzstan" :>
        [prefixes |-> <<<<"+", "9", "9", "6", "5", "0">>,
              <<"+", "9", "9", "6", "5", "5">>,
              <<"+", "9", "9", "6", "7", "0">>,
              <<"+", "9", "9", "6", "7", "7">>,
              <<"+", "9", "9", "6", "9", "9">>>>,
         subscriber_len |-> 6]
    @@
    "Uzbekistan" :>
        [prefixes |-> <<<<"+", "9", "9", "8", "9", "0">>,
              <<"+", "9", "9", "8", "9", "1">>,
              <<"+", "9", "9", "8", "9", "3">>,
              <<"+", "9", "9", "8", "9", "4">>,
              <<"+", "9", "9", "8", "9", "5">>,
              <<"+", "9", "9", "8", "9", "7">>,
              <<"+", "9", "9", "8", "9", "9">>>>,
         subscriber_len |-> 7]

\* operator_prefixes.get(country) finds an entry
KnownCountry(country) == country \in DOMAIN operator_prefixes

\* the numbers generate_phone may return for the country
generate_phone(country, digits) ==
    IF ~KnownCountry(country) THEN {<<"+", "0", "0", "0", "0", "0", "0", "0", "0", "0", "0">>}
    ELSE LET cfg == operator_prefixes[country]
         IN  {cfg.prefixes[i] \o local_number :
                i \in DOMAIN cfg.prefixes,
                local_number \in [1..cfg.subscriber_len -> digits]}

\* one call of generate_phone
GeneratePhone(countries, digits) ==
    /\ rec.pc = "idle"
    /\ \E country \in countries :
        \E phone \in generate_phone(country, digits) :
            rec' = Handled("phone", JStr(country), NoContent, Returned(phone \o <<>>, <<>>, NotParsed))
    /\ RecoveryUnchanged

(***************************************************************************)
(* The generator's answers: a JSON value written out as text, bare or      *)
(* inside fences, white space and prose, and answers without an object.    *)
(***************************************************************************)
RECURSIVE Render(_)
RECURSIVE RenderMembers(_, _)
RECURSIVE RenderElems(_)

\* the text of a JSON value, without white space
Render(v) ==
    IF v.t = "obj" THEN <<LBrace>> \o RenderMembers(v.m, DOMAIN v.m) \o <<RBrace>>
    ELSE IF v.t = "arr" THEN <<LBracket>> \o RenderElems(v.a) \o <<RBracket>>
    ELSE <<Tok(v.t, v.s)>>

RenderMembers(m, keys) ==
    IF keys = {} THEN <<>>
    ELSE LET k == CHOOSE x \in keys : TRUE
         IN  <<KeyTok(k)>> \o Render(m[k])
                 \o (IF keys = {k} THEN <<>> ELSE <<Comma>> \o RenderMembers(m, keys \ {k}))

RenderElems(a) ==
    IF a = <<>> THEN <<>>
    ELSE Render(Head(a)) \o (IF Len(a) = 1 THEN <<>> ELSE <<Comma>> \o RenderElems(Tail(a)))

\* the text with white space after every token
Spaced(text) ==
    [i \in 1..(2 * Len(text)) |-> IF i % 2 = 1 THEN text[(i + 1) \div 2] ELSE Ws] \o <<>>

\* what stands before and after the value: nothing, white space, fences,
\* prose, prose and fences, prose with braces after it, prose with braces
\* before it
Wrappers ==
    {<<<<>>, <<>>>>,
     <<<<Ws>>, <<Ws>>>>,
     <<<<FenceJson, Ws>>, <<Ws, Fence>>>>,
     <<<<Word("Sure"), Ws>>, <<Ws, Word("thanks")>>>>,
     <<<<Word("Here"), Ws, FenceJson, Ws>>, <<Ws, Fence, Ws, Word("done")>>>>,
     <<<<>>, <<Ws, Word("use"), LBrace, Word("x"), RBrace>>>>,
     <<<<Word("set"), LBrace, RBrace, Ws>>, <<>>>>}

Wrap(w, v) == StrContent(w[1] \o Render(v) \o w[2])

\* the text of the value cut short by n tokens
Truncated(v, n) == StrContent(SubSeq(Render(v), 1, Len(Render(v)) - n))

\* answers that do not depend on the site
NoObjectContents ==
    {StrContent(<<>>), StrContent(<<Ws>>), StrContent(<<Word("Sorry")>>),
     StrContent(<<LBrace, Word("oops")>>), StrContent(<<Word("oops"), RBrace>>),
     StrContent(<<RBrace, Word("oops"), LBrace>>), StrContent(<<LBrace, KeyTok("a"), RBrace>>),
     NoneContent}

ContentsOf(values) ==
    {Wrap(w, v) : w \in Wrappers, v \in values}
        \cup {StrContent(Spaced(Render(v))) : v \in values}
        \cup {Truncated(v, 1) : v \in values}
        \cup NoObjectContents

\* prose of n characters
LongProse(n) == [i \in 1..n |-> Word("x")] \o <<>>

\* answers around the length limit of a site: prose of limit and of
\* limit + 1 characters, a brace pair around prose, and the value v after
\* prose of limit + 1 characters
LongContents(limit, v) ==
    {StrContent(LongProse(limit)), StrContent(LongProse(limit + 1)),
     StrContent(<<LBrace>> \o LongProse(limit + 1) \o <<RBrace>>),
     StrContent(LongProse(limit + 1) \o <<Ws>> \o Render(v))}

\* d without the key k
Without(v, k) == JObj([x \in DOMAIN v.m \ {k} |-> v.m[x]])

VinFull == JObj([k \in VinFields |-> JStr(k)])

VinValues ==
    {VinFull, Without(VinFull, "weight"), Put(VinFull, "note", JStr("n")),
     Put(VinFull, "engine_cc", JNum("1998")), Put(VinFull, "vin", JNull), JObj(EmptyMap),
     JArr(<<VinFull>>), JStr("vin")}

VinContents ==
    ContentsOf(VinValues)
        \cup {ListContent(<<[type |-> "text", text |-> Render(VinFull)]>>),
              ListContent(<<[type |-> "text", text |-> <<Word("Sure")>>],
                            [type |-> "image", text |-> <<>>],
                            [type |-> "text", text |-> Render(VinFull)]>>),
              ListContent(<<>>)}

\* a language map with the given codes
LanguageMap(codes, x) == JObj([l \in codes |-> JStr(x)])

TranslateRequest(source, text, targets) ==
    JObj(("source" :> source) @@ ("text" :> text) @@ ("targets" :> targets))

TranslateRequests ==
    {TranslateRequest(JStr("ru"), JStr("Mercedes"), JArr(<<JStr("en"), JStr("uz")>>)),
     TranslateRequest(JStr("ru"), JStr("Mercedes"), JArr(<<JStr("ru"), JStr("en"), JStr("uz")>>)),
     TranslateRequest(JStr("ru"), JStr("Mercedes"), JArr(<<JStr("ru")>>)),
     TranslateRequest(JNull, JStr("Mercedes"), JArr(<<JStr("en")>>)),
     TranslateRequest(JStr("ru"), JStr(""), JArr(<<JStr("en")>>)),
     TranslateRequest(JStr("ru"), JStr("Mercedes"), JArr(<<>>)),
     TranslateRequest(JStr("ru"), JStr("Mercedes"), JStr("en")),
     TranslateRequest(JStr("fr"), JStr("Mercedes"), JArr(<<JStr("en")>>)),
     TranslateRequest(JStr("ru"), JStr("Mercedes"), JArr(<<JStr("en"), JStr("fr")>>))}

\* answers to a request for en and uz
TranslateValues ==
    {LanguageMap({"en", "uz"}, "Mercedes"), LanguageMap({"en"}, "Mercedes"),
     LanguageMap({"uz"}, "Mercedes"), LanguageMap({"en", "uz", "ko"}, "Mercedes"),
     Put(LanguageMap({"en"}, "Mercedes"), "uz", JNull), JObj(EmptyMap)}

TranslateContents ==
    ContentsOf(TranslateValues) \cup LongContents(TranslateRawLimit, LanguageMap({"en"}, "Mercedes"))

ConsigneeRequests ==
    {JObj("country" :> JStr("Russia")), JObj("country" :> JStr("Uzbekistan")),
     JObj("country" :> JStr("Narnia")), JObj(EmptyMap)}

ConsigneeFull ==
    JObj(("consignee_name" :> JStr("Aidar Nurlanov")) @@ ("consignee_address" :> JStr("45 Abai Avenue")))

ConsigneeValues ==
    {ConsigneeFull, Without(ConsigneeFull, "consignee_address"),
     Put(ConsigneeFull, "note", JStr("n")), Put(ConsigneeFull, "consignee_tel", JStr("old")),
     JObj(EmptyMap)}

ConsigneeContents == ContentsOf(ConsigneeValues) \cup LongContents(ListingRawLimit, ConsigneeFull)

ListingRequests ==
    {JObj("text" :> JStr("Mercedes-Benz E-Class 2022")), JObj("text" :> JStr(" ")),
     JObj("text" :> JStr("")), JObj("text" :> JNum("2022")), JObj(EmptyMap)}

FullMap(x) == LanguageMap(LanguageCodes, x)

ListingText == JObj([f \in {RequiredTextFields[i] : i \in DOMAIN RequiredTextFields} |-> FullMap(f)])

ListingSpecs == JObj(("year" :> JNum("2022")) @@ ("currency" :> JStr("KRW")))

ListingInspection(history) == JObj(("accidents" :> JLit("true")) @@ ("maintenanceHistory" :> history))

ListingFull ==
    JObj(("listingId" :> JNull) @@ ("specs" :> ListingSpecs) @@ ("text" :> ListingText)
         @@ ("additionalOptions" :> JArr(<<FullMap("sunroof"), FullMap("camera")>>))
         @@ ("inspectionHistory" :> ListingInspection(FullMap("serviced"))))

\* the listing with text.<field> replaced
WithTextField(field, v) == Put(ListingFull, "text", Put(ListingText, field, v))

ListingValues ==
    {ListingFull,
     Put(ListingFull, "seller", JStr("dealer")),
     Without(ListingFull, "text"),
     Without(ListingFull, "specs"),
     Without(ListingFull, "additionalOptions"),
     Without(ListingFull, "inspectionHistory"),
     Put(ListingFull, "text", JNull),
     Put(ListingFull, "text", JStr("make")),
     Put(ListingFull, "text", Without(ListingText, "trim")),
     WithTextField("make", LanguageMap(LanguageCodes \ {"ko"}, "make")),
     WithTextField("description", LanguageMap({"en"}, "description")),
     WithTextField("color", JStr("red")),
     WithTextField("model", Put(FullMap("model"), "fr", JStr("modele"))),
     Put(ListingFull, "additionalOptions", JStr("sunroof")),
     Put(ListingFull, "additionalOptions", JArr(<<>>)),
     Put(ListingFull, "additionalOptions", JArr(<<FullMap("sunroof"), JStr("camera")>>)),
     Put(ListingFull, "additionalOptions",
         JArr(<<FullMap("sunroof"), LanguageMap(LanguageCodes \ {"kz", "uz"}, "camera")>>)),
     Put(ListingFull, "inspectionHistory", JLit("false")),
     Put(ListingFull, "inspectionHistory", JObj("accidents" :> JLit("false"))),
     Put(ListingFull, "inspectionHistory", ListingInspection(LanguageMap({"ru", "en"}, "serviced"))),
     Put(ListingFull, "inspectionHistory", ListingInspection(JObj(EmptyMap))),
     Put(ListingFull, "inspectionHistory", ListingInspection(JStr("serviced"))),
     Put(ListingFull, "inspectionHistory", ListingInspection(JNull)),
     Put(ListingFull, "inspectionHistory",
         ListingInspection(Put(FullMap("serviced"), "fr", JStr("revise"))))}

ListingContents ==
    ContentsOf(ListingValues) \cup LongContents(ListingRawLimit, Without(ListingFull, "text"))

(***************************************************************************)
(* The /extract request, extract.py lines 12-51, one action per statement  *)
(* group.  An image is kept as its shape <<height, width>>; the samples    *)
(* take no part in what the handler does next.                             *)
(***************************************************************************)
\* max_dim
MaxDim == 1600

\* the bytes of the upload: an image of some shape, or bytes that imdecode
\* does not read as an image
ImageFile(sh) == [decodes |-> TRUE, shape |-> sh]
NotAnImage == [decodes |-> FALSE, shape |-> <<>>]

\* img is None
NoImage == <<>>

NoExtract ==
    [pc |-> "idle", file |-> NotAnImage, img |-> NoImage, enhanced |-> NoImage,
     uploaded |-> FALSE, asked |-> FALSE, content |-> NoContent, fields |-> NoOutcome,
     status |-> 0, body |-> "", failed |-> "", trace |-> <<>>]

Max(a, b) == IF a >= b THEN a ELSE b

\* int(d * scale) with scale = max_dim / m, computed in binary floating
\* point: the whole part of d * 1600 / m, or one less where that quotient is
\* a whole number and the rounded scale falls short of it (m = 2156); a
\* scale that is a power of two (m = 3200) is exact
ExactScale(m) == \E k \in 0..4 : m = MaxDim * (2 ^ k)

ScaledDim(d, m) ==
    LET q == (d * MaxDim) \div m
    IN  IF (d * MaxDim) % m = 0 /\ ~ExactScale(m) THEN {q - 1, q} ELSE {q}

\* cv2.resize refuses a size with a zero
ResizeAccepts(w, h) == w >= 1 /\ h >= 1

\* max(h, w) > max_dim
TooLarge(sh) == Max(sh[1], sh[2]) > MaxDim

\* the shapes that lines 27-32 may give for an image of shape sh; <<>> where
\* cv2.resize raises
Resized(sh) ==
    {IF ResizeAccepts(nw, nh) THEN <<nh, nw>> ELSE NoImage :
        nw \in ScaledDim(sh[2], Max(sh[1], sh[2])), nh \in ScaledDim(sh[1], Max(sh[1], sh[2]))}

\* lines 26-32: the shapes the image may have after them
Downscaled(sh) == IF TooLarge(sh) THEN Resized(sh) ELSE {sh}

\* enhance_image on an image of the shape sh: the shape that reaches CLAHE
EnhanceReaches(sh) == Squeeze(ToTensor(Array(sh, <<>>)))
EnhanceRaises(sh) == ~ClaheAccepts(EnhanceReaches(sh))
EnhancedShape(sh) == ClaheShape(EnhanceReaches(sh))

\* what the generator call of extract_vin_fields may give: an answer, or an
\* exception of the client
ApiError == [kind |-> "api_error", text |-> <<>>, blocks |-> <<>>]

Step(e, name) == [e EXCEPT !.trace = Append(@, name)]

\* faulty variant: the handler goes on after an exception
GoOn(e, step) ==
    [e EXCEPT !.failed = step,
              !.pc = CASE step = "downscale" -> "sized"
                       [] step = "enhance" -> "enhanced"
                       [] step = "upload" -> "uploaded"
                       [] OTHER -> "responded",
              !.status = IF step = "generator" THEN 500 ELSE 0]

\* lines 50-51: except Exception as e: return JSONResponse(status_code=500, ..)
Except(e, step) ==
    [e EXCEPT !.pc = "responded", !.status = 500, !.body = "error", !.failed = step]

ExtractUnchanged == UNCHANGED <<calls, weights, proc, disk, reqs, rec>>

\* lines 15-20
Decode(files) ==
    /\ ext.pc = "idle"
    /\ \E file \in files :
        LET e == Step([ext EXCEPT !.file = file], "decode")
        IN  ext' = IF file.decodes
                   THEN [e EXCEPT !.pc = "decoded", !.img = file.shape]
                   ELSE [e EXCEPT !.pc = "responded", !.status = 400, !.body = "error",
                                  !.failed = "decode"]
    /\ ExtractUnchanged

\* lines 22-32
Downscale ==
    /\ ext.pc = "decoded"
    /\ \E img \in Downscaled(ext.img) :
        LET e == IF TooLarge(ext.img) THEN Step(ext, "downscale") ELSE ext
        IN  ext' = IF img = NoImage THEN Except(e, "downscale")
                   ELSE [e EXCEPT !.pc = "sized", !.img = img]
    /\ ExtractUnchanged

\* line 34
Enhance ==
    /\ ext.pc = "sized"
    /\ LET e == Step(ext, "enhance")
       IN  ext' = IF EnhanceRaises(ext.img) THEN Except(e, "enhance")
                  ELSE [e EXCEPT !.pc = "enhanced", !.enhanced = EnhancedShape(ext.img)]
    /\ ExtractUnchanged

\* line 37
Encode ==
    /\ ext.pc = "enhanced"
    /\ ext' = [Step(ext, "encode") EXCEPT !.pc = "encoded"]
    /\ ExtractUnchanged

\* lines 38-39: upload_fileobj stores the image or raises
Upload ==
    /\ ext.pc = "encoded"
    /\ \E stored \in BOOLEAN :
        LET e == Step(ext, "upload")
        IN  ext' = IF stored THEN [e EXCEPT !.pc = "uploaded", !.uploaded = TRUE]
                   ELSE Except(e, "upload")
    /\ ExtractUnchanged

\* line 41: extract_vin_fields(image_url)
AskGenerator(contents) ==
    /\ ext.pc = "uploaded"
    /\ \E content \in contents \cup {ApiError} :
        LET e == [Step(ext, "generator") EXCEPT !.asked = TRUE, !.content = content]
        IN  ext' = IF content = ApiError THEN Except(e, "generator")
                   ELSE [e EXCEPT !.pc = "extracted", !.fields = extract_vin_fields(content)]
    /\ ExtractUnchanged

\* lines 44-48
RespondFields ==
    /\ ext.pc = "extracted"
    /\ ext' = [ext EXCEPT !.pc = "responded", !.status = 200, !.body = "fields"]
    /\ ExtractUnchanged

\* the sides of the images sent to /extract
ExtractDims == {1, 2, 1599, 1600, 1601, 2156, 3200, 3201}

ExtractFiles == {ImageFile(<<h, w>>) : h \in ExtractDims, w \in ExtractDims} \cup {NotAnImage}

\* the countries asked of generate_phone and the digits drawn for it
PhoneCountries == {"Russia", "Kazakhstan", "Kyrgyzstan", "Uzbekistan", "Narnia"}
PhoneDigits == {"0", "9"}

\* the bodies sent to /generate-docx
DocxBodies ==
    {NotJson, JNull, JStr("invoice"), JArr(<<JStr("invoice")>>), JObj(EmptyMap),
     JObj("file_url" :> JStr("https://bucket/template.docx")),
     JObj("template_url" :> JStr("https://bucket/template.docx")),
     JObj(("file_url" :> JStr("")) @@ ("template_url" :> JStr("https://bucket/template.docx"))),
     JObj(("file_url" :> JStr("")) @@ ("template_url" :> JNull)),
     JObj("unit_price" :> JNum("1200")),
     JObj(("file_url" :> JStr("https://bucket/template.docx")) @@ ("unit_price" :> JNum("1200")))}

(***************************************************************************)
(* Specifications.                                                         *)
(***************************************************************************)
PixelSamples == {0, 16, 17, 80, 120, 200, 255}

Shapes == {sh \in (1..MaxPixels) \X (1..MaxPixels) : sh[1] * sh[2] <= MaxPixels}

Images == UNION {{Array(sh, px) : px \in [1..(sh[1] * sh[2]) -> PixelSamples]} : sh \in Shapes}

\* the inputs of the concurrent calls
ConcurrentImages ==
    {Array(<<1, 1>>, <<200>>), Array(<<1, 2>>, <<17, 200>>), Array(<<2, 1>>, <<200, 80>>),
     Array(<<2, 2>>, <<0, 255, 120, 16>>)}

\* Spec: one call of enhance_image on any image, with the weights of the file
Init ==
    /\ calls = [r \in {1} |-> NoCall]
    /\ weights = Pretrained
    /\ proc = NoProcess
    /\ disk = "good"
    /\ reqs = NoRequests
    /\ rec = RecIdle
    /\ ext = NoExtract

Next ==
    \/ \E r \in DOMAIN calls : Call(r, Images)
    \/ \E r \in DOMAIN calls : Normalize(r)
    \/ \E r \in DOMAIN calls : InferHead(r)
    \/ \E r \in DOMAIN calls : InferBody(r)
    \/ \E r \in DOMAIN calls : InferTail(r)
    \/ \E r \in DOMAIN calls : Sharpen(r)
    \/ \E r \in DOMAIN calls : Clahe(r)

Spec == Init /\ [][Next]_vars

\* SpecConcurrent: MaxCalls calls of enhance_image share the loaded model
InitConcurrent ==
    /\ calls = [r \in 1..MaxCalls |-> NoCall]
    /\ weights \in WeightChoices
    /\ proc = NoProcess
    /\ disk = "good"
    /\ reqs = NoRequests
    /\ rec = RecIdle
    /\ ext = NoExtract

NextConcurrent ==
    \/ \E r \in DOMAIN calls : Call(r, ConcurrentImages)
    \/ \E r \in DOMAIN calls : Normalize(r)
    \/ \E r \in DOMAIN calls : InferHead(r)
    \/ \E r \in DOMAIN calls : InferBody(r)
    \/ \E r \in DOMAIN calls : InferTail(r)
    \/ \E r \in DOMAIN calls : Sharpen(r)
    \/ \E r \in DOMAIN calls : Clahe(r)

SpecConcurrent == InitConcurrent /\ [][NextConcurrent]_vars

\* SpecStartup: processes start one after the other over one disk
InitStartup ==
    /\ calls = [r \in {1} |-> NoCall]
    /\ weights = NoWeights
    /\ proc = NewProcess(1, 0)
    /\ disk \in DiskStates
    /\ reqs = NoRequests
    /\ rec = RecIdle
    /\ ext = NoExtract

NextStartup ==
    \/ ImportRouters
    \/ CheckCache
    \/ Fetch
    \/ Save
    \/ ReadCache
    \/ BuildModel
    \/ WarmUp
    \/ IncludeRouters
    \/ Lifespan
    \/ \E q \in 1..MaxRequests : Receive(q) \/ Infer(q) \/ Respond(q)
    \/ Restart

SpecStartup == InitStartup /\ [][NextStartup]_vars

\* SpecRecovery: one call of one of the four handlers that read generator text
InitRecovery ==
    /\ calls = [r \in {1} |-> NoCall]
    /\ weights = Pretrained
    /\ proc = NoProcess
    /\ disk = "good"
    /\ reqs = NoRequests
    /\ rec = RecIdle
    /\ ext = NoExtract

NextRecovery ==
    \/ ExtractVinFields(VinContents)
    \/ TranslateText(TranslateRequests, TranslateContents)
    \/ GenerateListing(ListingRequests, ListingContents)
    \/ GenerateConsignee(ConsigneeRequests, ConsigneeContents)

SpecRecovery == InitRecovery /\ [][NextRecovery]_vars

\* SpecExtract: one /extract request
InitExtract ==
    /\ calls = [r \in {1} |-> NoCall]
    /\ weights = Pretrained
    /\ proc = NoProcess
    /\ disk = "good"
    /\ reqs = NoRequests
    /\ rec = RecIdle
    /\ ext = NoExtract

NextExtract ==
    \/ Decode(ExtractFiles)
    \/ Downscale
    \/ Enhance
    \/ Encode
    \/ Upload
    \/ AskGenerator(VinContents)
    \/ RespondFields

SpecExtract == InitExtract /\ [][NextExtract]_vars

\* SpecValidation: one request to a handler that checks its input
InitValidation ==
    /\ calls = [r \in {1} |-> NoCall]
    /\ weights = Pretrained
    /\ proc = NoProcess
    /\ disk = "good"
    /\ reqs = NoRequests
    /\ rec = RecIdle
    /\ ext = NoExtract

NextValidation ==
    \/ TranslateText(TranslateRequests, TranslateContents)
    \/ GenerateListing(ListingRequests, ListingContents)
    \/ GenerateConsignee(ConsigneeRequests, ConsigneeContents)
    \/ GenerateDocx(DocxBodies)
    \/ GenerateDocxFromData(DocxBodies)

SpecValidation == InitValidation /\ [][NextValidation]_vars

\* SpecPhone: one call of generate_phone
InitPhone ==
    /\ calls = [r \in {1} |-> NoCall]
    /\ weights = Pretrained
    /\ proc = NoProcess
    /\ disk = "good"
    /\ reqs = NoRequests
    /\ rec = RecIdle
    /\ ext = NoExtract

NextPhone == GeneratePhone(PhoneCountries, PhoneDigits)

SpecPhone == InitPhone /\ [][NextPhone]_vars

(***************************************************************************)
(* Claims about enhance_image (Spec, SpecConcurrent).                      *)
(***************************************************************************)
\* the call has passed the normalisation stage
Normalized(c) == Len(c.trace) >= 1
NormIn(c) == c.trace[1].in
NormOut(c) == c.trace[1].out

\* clamp(a*p + b, 0, 255) as an 8-bit sample: the value is clamped, then rounded
ClampedAffine(p, an, ad, beta) == RoundDiv(Clamp(an * p + ad * beta, 0, 255 * ad), ad)

\* C1: the normalisation stage maps every pixel p to clamp(1.2*p - 20, 0, 255)
\* when the mean is above 120, to clamp(1.4*p, 0, 255) when it is below 80 and
\* to clamp(1.2*p, 0, 255) otherwise; in the first branch a pixel with
\* 1.2*p - 20 < 0 maps to 0.
C1_NormalizeIsClampedAffine ==
    \A r \in DOMAIN calls :
        Normalized(calls[r]) =>
            LET in == NormIn(calls[r])
                out == NormOut(calls[r])
            IN  \A i \in 1..Len(in.px) :
                    /\ SumSeq(in.px) > 120 * Len(in.px) =>
                            /\ out.px[i] = ClampedAffine(in.px[i], 6, 5, -20)
                            /\ (6 * in.px[i] - 100 < 0 => out.px[i] = 0)
                    /\ SumSeq(in.px) < 80 * Len(in.px) =>
                            out.px[i] = ClampedAffine(in.px[i], 7, 5, 0)
                    /\ (SumSeq(in.px) <= 120 * Len(in.px) /\ SumSeq(in.px) >= 80 * Len(in.px)) =>
                            out.px[i] = ClampedAffine(in.px[i], 6, 5, 0)

\* C2 as stated: when the mean of the input is above 120, the mean of the
\* normalised image is at most the mean of the input.
C2_BrightMeanNotRaised ==
    \A r \in DOMAIN calls :
        (Normalized(calls[r]) /\ SumSeq(NormIn(calls[r]).px) > 120 * Len(NormIn(calls[r]).px)) =>
            SumSeq(NormOut(calls[r]).px) <= SumSeq(NormIn(calls[r]).px)

\* C2 as amended: when the mean of the input is above 120, the mean of the
\* normalised image is at most 1.2 times the mean of the input.
C2_BrightMeanAtMostScaled ==
    \A r \in DOMAIN calls :
        (Normalized(calls[r]) /\ SumSeq(NormIn(calls[r]).px) > 120 * Len(NormIn(calls[r]).px)) =>
            5 * SumSeq(NormOut(calls[r]).px) <= 6 * SumSeq(NormIn(calls[r]).px)

\* a bright image whose mean the stage has raised
C2_Witness ==
    \E r \in DOMAIN calls :
        /\ Normalized(calls[r])
        /\ SumSeq(NormIn(calls[r]).px) > 120 * Len(NormIn(calls[r]).px)
        /\ SumSeq(NormOut(calls[r]).px) > SumSeq(NormIn(calls[r]).px)
        /\ \E i \in 1..Len(NormIn(calls[r]).px) : NormIn(calls[r]).px[i] < 17

StageOrder == <<"normalize", "infer", "sharpen", "clahe">>

\* C6: the stages run in the order normalize, infer, sharpen, clahe; the first
\* reads the argument, each later one reads exactly what the stage before it
\* wrote, and the value returned is what the last stage wrote.
C6_StagesInOrder ==
    \A r \in DOMAIN calls :
        LET c == calls[r]
        IN  /\ Len(c.trace) <= 4
            /\ \A i \in 1..Len(c.trace) : c.trace[i].stage = StageOrder[i]
            /\ Len(c.trace) >= 1 => c.trace[1].in = c.arg
            /\ \A i \in 2..Len(c.trace) : c.trace[i].in = c.trace[i - 1].out
            /\ c.pc = "returned" => (Len(c.trace) = 4 /\ c.enhanced = c.trace[4].out)
            /\ c.pc = "returned" =>
                    c.enhanced = ClaheApply(UnsharpMask(Denoise(weights, NormalizeImage(c.arg))))

\* a call has returned and every one of its four stages changed the image
C6_Witness ==
    \E r \in DOMAIN calls :
        /\ calls[r].pc = "returned"
        /\ \A i \in 1..4 : calls[r].trace[i].in.px # calls[r].trace[i].out.px

Finished(c) == c.pc \in {"returned", "raised"}

Sharpened(c) == c.pc \in {"sharpened", "returned", "raised"}

\* C8 as stated: every sharpened sample is clamp(1.5*p - 0.5*b, 0, 255), p the
\* denoised sample and b its Gaussian blur (as an 8-bit sample: truncated).
C8_SharpIsThreeHalvesMinusHalf ==
    \A r \in DOMAIN calls :
        Sharpened(calls[r]) =>
            \A i \in 1..Len(calls[r].img.px) :
                calls[r].sharp.px[i] =
                    Clamp((48 * calls[r].img.px[i] - Blur16(calls[r].img, i)) \div 32, 0, 255)

\* C8 as amended: every sharpened sample is clamp(2.5*p - 1.5*b, 0, 255), p the
\* denoised sample and b its Gaussian blur (as an 8-bit sample: truncated).
C8_SharpIsFiveHalvesMinusThreeHalves ==
    \A r \in DOMAIN calls :
        Sharpened(calls[r]) =>
            \A i \in 1..Len(calls[r].img.px) :
                calls[r].sharp.px[i] =
                    Clamp((80 * calls[r].img.px[i] - 3 * Blur16(calls[r].img, i)) \div 32, 0, 255)

\* a sharpened image with a sample strictly inside the clamp range that the
\* blur changes
C8_Witness ==
    \E r \in DOMAIN calls :
        /\ Sharpened(calls[r])
        /\ \E i \in 1..Len(calls[r].img.px) :
              /\ Blur16(calls[r].img, i) # 16 * calls[r].img.px[i]
              /\ calls[r].sharp.px[i] \in 1..254

(***************************************************************************)
(* Claims about the start-up and the weights file (SpecStartup).           *)
(***************************************************************************)
InFlight(q) == reqs[q].pc # "idle"

\* C3: in one process the module body that loads the weights and builds the
\* model runs at most once; whenever a request is under way it has run exactly
\* once and to its end, every inference of a request has used loaded weights,
\* and the model is as the load left it.
C3_LoadedOnceBeforeRequests ==
    /\ proc.loads <= 1
    /\ \A q \in 1..MaxRequests :
          InFlight(q) =>
              /\ proc.loads = 1
              /\ "enhancer" \in proc.modules
              /\ weights.tag # "none"
              /\ weights = proc.loaded
              /\ reqs[q].pc \in {"inferred", "done"} => reqs[q].used = proc.loaded.tag

\* two requests are under way at once, one of them past its inference
C3_Witness ==
    /\ reqs[1].pc = "inferred"
    /\ reqs[2].pc = "enhancing"
    /\ proc.loads = 1

\* C4: when the weights cannot be loaded (the download fails, the cached file
\* cannot be read, or the loaded state lacks the model's parameters), the
\* process never serves a request.
C4_LoadFailureIsFatal ==
    proc.problem \in {"download", "read", "nokeys"} =>
        /\ proc.pc # "serving"
        /\ \A q \in 1..MaxRequests : ~InFlight(q)

\* C5: a step fetches only from the module body of a starting process that
\* found no cache file; no step removes the cache file, so once it is saved
\* no later start fetches; and no step of a serving process fetches, runs the
\* module body, writes the file or changes the model.
C5_FetchOnlyWhenCacheAbsent ==
    [][ /\ proc'.fetches # proc.fetches =>
              (disk = "absent" /\ proc.pc = "enh_fetch" /\ proc'.fetches = proc.fetches + 1)
        /\ disk # "absent" => (disk' = disk /\ proc'.fetches = proc.fetches)
        /\ (proc.pc = "serving" /\ proc'.pc = "serving") =>
              (proc' = proc /\ weights' = weights /\ disk' = disk)
      ]_vars

\* the second start served a request and the only fetch was the first start's
C5_Witness ==
    /\ proc.starts = 2
    /\ proc.fetches = 1
    /\ proc.pc = "serving"
    /\ reqs[1].pc = "done"


(***************************************************************************)
(* Claims about the recovery of generator text (SpecRecovery).             *)
(***************************************************************************)
\* the handler asked the generator and got a string
Answered == rec.pc = "done" /\ rec.content.kind = "str"

\* the answer without its fences
Unfenced == Remove(Remove(rec.content.text, FenceJson), Fence)

\* what parsing from the first "{" to the last "}" of the answer gives
BraceSpan == JsonLoads(SubSeq(Unfenced, Find(Unfenced, LBrace), RFind(Unfenced, RBrace)))

HasBothBraces == Find(Unfenced, LBrace) # 0 /\ RFind(Unfenced, RBrace) # 0

\* C9: at each of the four call sites (VIN, consignee, translation, listing)
\* the handler parses the answer from its first "{" to its last "}", so that
\* a JSON object between prose is recovered as that object; an answer that
\* lacks one of the braces makes the call fail, as no JSON found.
C9_BraceSpanParsedAtEverySite ==
    Answered =>
        /\ HasBothBraces => rec.outcome.parsed = BraceSpan
        /\ ~HasBothBraces =>
                (rec.outcome.kind = "raise" /\ rec.outcome.detail \in {"no_json", "invalid_json"})

\* the codes that v lacks are added with the empty string
Repaired(v, codes) ==
    JObj([l \in DOMAIN v.m \cup codes |-> IF l \in DOMAIN v.m THEN v.m[l] ELSE JStr("")])

Lacks(v, codes) == \E l \in codes : l \notin DOMAIN v.m

TextFieldNames == {RequiredTextFields[i] : i \in DOMAIN RequiredTextFields}

\* the handler parsed an object out of the answer
Recovered(site) == Answered /\ rec.site = site /\ rec.outcome.parsed.ok

\* the codes asked of the translation
AskedCodes == {TranslateTargets(rec.data)[i].s : i \in DOMAIN TranslateTargets(rec.data)}

\* the parsed listing has its six text fields, each an object
TextIsMaps(l) ==
    /\ Has(l, "text")
    /\ IsDict(l.m["text"])
    /\ \A f \in TextFieldNames : Has(l.m["text"], f) /\ IsDict(l.m["text"].m[f])

TextIsFull(l) == TextIsMaps(l) /\ \A f \in TextFieldNames : ~Lacks(l.m["text"].m[f], LanguageCodes)

\* the parsed listing has a list of objects as additionalOptions, or none
OptionsAreMaps(l) ==
    Has(l, "additionalOptions") =>
        /\ IsList(l.m["additionalOptions"])
        /\ \A i \in DOMAIN l.m["additionalOptions"].a : IsDict(l.m["additionalOptions"].a[i])

OptionsAreFull(l) ==
    /\ OptionsAreMaps(l)
    /\ Has(l, "additionalOptions") =>
            \A i \in DOMAIN l.m["additionalOptions"].a :
                ~Lacks(l.m["additionalOptions"].a[i], LanguageCodes)

\* the parsed listing has an object as maintenance history, or none
HistoryIsMap(l) ==
    Has(l, "inspectionHistory") =>
        /\ IsDict(l.m["inspectionHistory"])
        /\ Has(l.m["inspectionHistory"], "maintenanceHistory") =>
                IsDict(l.m["inspectionHistory"].m["maintenanceHistory"])

\* the maintenance history of the parsed listing; the empty map when it has none
HistoryOf(l) ==
    IF Has(l, "inspectionHistory") /\ Has(l.m["inspectionHistory"], "maintenanceHistory")
    THEN l.m["inspectionHistory"].m["maintenanceHistory"]
    ELSE JObj(EmptyMap)

ReturnedAt(site) == rec.pc = "done" /\ rec.site = site /\ rec.outcome.kind = "return"

\* the codes of the "targets" of the translation request, as the caller gave them
RequestedCodes == {Get(rec.data, "targets").a[i].s : i \in DOMAIN Get(rec.data, "targets").a}

\* the language maps of a returned listing
ListingMaps(listing) ==
    {listing.m["text"].m[f] : f \in TextFieldNames}
        \cup {listing.m["additionalOptions"].a[i] : i \in DOMAIN listing.m["additionalOptions"].a}
        \cup {listing.m["inspectionHistory"].m["maintenanceHistory"]}

C12_MissingSectionFailsTheCall ==
    (Recovered("listing")
        /\ (~Has(rec.outcome.parsed.val, "text") \/ ~Has(rec.outcome.parsed.val, "specs"))) =>
            rec.outcome.kind = "raise"

\* C12 as amended: a listing answer whose object has no "text" section fails
\* the call with status 500; one that has no "specs" section and is valid
\* otherwise succeeds, and the returned listing has an empty "specs" object.
C12_MissingTextFailsMissingSpecsDefaulted ==
    Recovered("listing") =>
        /\ ~Has(rec.outcome.parsed.val, "text") =>
                (rec.outcome.kind = "raise" /\ rec.outcome.status = 500)
        /\ (~Has(rec.outcome.parsed.val, "specs") /\ TextIsFull(rec.outcome.parsed.val)
                /\ OptionsAreFull(rec.outcome.parsed.val) /\ HistoryIsMap(rec.outcome.parsed.val)) =>
                /\ rec.outcome.kind = "return"
                /\ Has(rec.outcome.body, "specs")
                /\ rec.outcome.body.m["specs"] = JObj(EmptyMap)
        /\ (Has(rec.outcome.parsed.val, "specs") /\ rec.outcome.kind = "return") =>
                rec.outcome.body.m["specs"] = rec.outcome.parsed.val.m["specs"]

\* a listing that came without "specs" has been returned
C12_Witness ==
    /\ Recovered("listing")
    /\ ~Has(rec.outcome.parsed.val, "specs")
    /\ Has(rec.outcome.parsed.val, "text")
    /\ rec.outcome.kind = "return"


ConsigneeFields == {"consignee_name", "consignee_address"}

\* C13 as stated: when the parsed object lacks a required flat key (one of
\* the six VIN fields, consignee_name or consignee_address) the call fails;
\* no record is returned in which the key is filled with a default or left out.
C13_MissingFlatKeyFailsTheCall ==
    /\ (Recovered("vin") /\ IsDict(rec.outcome.parsed.val)
            /\ \E k \in VinFields : ~Has(rec.outcome.parsed.val, k)) =>
            rec.outcome.kind = "raise"
    /\ (Recovered("consignee") /\ \E k \in ConsigneeFields : ~Has(rec.outcome.parsed.val, k)) =>
            rec.outcome.kind = "raise"

\* C13 as amended: a missing flat key never fails the call.  The VIN call
\* returns the six fields, each with its parsed value, or None when the
\* parsed object lacks it; the consignee call returns the parsed object, in
\* which a key that the generator left out stays left out.
C13_MissingFlatKeyIsReturned ==
    /\ (Recovered("vin") /\ IsDict(rec.outcome.parsed.val)) =>
            /\ rec.outcome.kind = "return"
            /\ DOMAIN rec.outcome.body.m = VinFields
            /\ \A k \in VinFields :
                    rec.outcome.body.m[k] =
                        IF Has(rec.outcome.parsed.val, k) THEN rec.outcome.parsed.val.m[k] ELSE JNull
    /\ Recovered("consignee") =>
            /\ rec.outcome.kind = "return"
            /\ \A k \in ConsigneeFields :
                    IF Has(rec.outcome.parsed.val, k)
                    THEN Has(rec.outcome.body.m["data"], k)
                            /\ rec.outcome.body.m["data"].m[k] = rec.outcome.parsed.val.m[k]
                    ELSE ~Has(rec.outcome.body.m["data"], k)

\* the VIN call has returned a record for an object without "weight"
C13_Witness ==
    /\ Recovered("vin")
    /\ IsDict(rec.outcome.parsed.val)
    /\ ~Has(rec.outcome.parsed.val, "weight")
    /\ Has(rec.outcome.parsed.val, "vin")
    /\ rec.outcome.kind = "return"


\* the sections that the listing handler reads
ListingSections == {"text", "specs", "additionalOptions", "inspectionHistory"}

\* the keys that the consignee handler writes
ConsigneeWritten == {"consignee_iin", "consignee_tel"}

\* C14 as stated: at every call site, every key of the parsed object that the
\* site does not declare is in the returned record with its parsed value.
C14_UndeclaredKeysPassThrough ==
    /\ (Recovered("vin") /\ IsDict(rec.outcome.parsed.val) /\ rec.outcome.kind = "return") =>
            \A k \in DOMAIN rec.outcome.parsed.val.m \ VinFields :
                Has(rec.outcome.body, k) /\ rec.outcome.body.m[k] = rec.outcome.parsed.val.m[k]
    /\ (Recovered("listing") /\ rec.outcome.kind = "return") =>
            \A k \in DOMAIN rec.outcome.parsed.val.m \ ListingSections :
                Has(rec.outcome.body, k) /\ rec.outcome.body.m[k] = rec.outcome.parsed.val.m[k]
    /\ (Recovered("consignee") /\ rec.outcome.kind = "return") =>
            \A k \in DOMAIN rec.outcome.parsed.val.m \ ConsigneeFields :
                /\ Has(rec.outcome.body.m["data"], k)
                /\ rec.outcome.body.m["data"].m[k] = rec.outcome.parsed.val.m[k]

\* C14 as amended: the listing call returns every key outside its four
\* sections with its parsed value; the consignee call returns every parsed
\* key with its parsed value except consignee_iin and consignee_tel, which it
\* writes itself; the VIN call returns the six declared fields and no other
\* key of the parsed object.
C14_UndeclaredKeysKeptExceptAtVin ==
    /\ (Recovered("vin") /\ IsDict(rec.outcome.parsed.val)) =>
            (rec.outcome.kind = "return" /\ DOMAIN rec.outcome.body.m = VinFields)
    /\ (Recovered("listing") /\ rec.outcome.kind = "return") =>
            \A k \in DOMAIN rec.outcome.parsed.val.m \ ListingSections :
                Has(rec.outcome.body, k) /\ rec.outcome.body.m[k] = rec.outcome.parsed.val.m[k]
    /\ Recovered("consignee") =>
            /\ rec.outcome.kind = "return"
            /\ \A k \in DOMAIN rec.outcome.parsed.val.m \ ConsigneeWritten :
                    /\ Has(rec.outcome.body.m["data"], k)
                    /\ rec.outcome.body.m["data"].m[k] = rec.outcome.parsed.val.m[k]
            /\ rec.outcome.body.m["data"].m["consignee_iin"] = GeneratedIin
            /\ rec.outcome.body.m["data"].m["consignee_tel"] = GeneratedTel

\* the VIN call has returned a record for an object with a key of its own
C14_Witness ==
    /\ Recovered("vin")
    /\ IsDict(rec.outcome.parsed.val)
    /\ Has(rec.outcome.parsed.val, "note")
    /\ VinFields \subseteq DOMAIN rec.outcome.parsed.val.m
    /\ rec.outcome.kind = "return"


\* the handler got a string from the generator and answered with an error
FailedAt(site) == Answered /\ rec.site = site /\ rec.outcome.kind = "raise"

\* the generator's text as the handlers keep it: without the white space
\* around it
RawText == Strip(rec.content.text)

\* the first n characters of the text
FirstChars(text, n) == SubSeq(text, 1, IF Len(text) < n THEN Len(text) ELSE n)

EmptyOrAbsent ==
    /\ rec.pc = "done"
    /\ \/ rec.content.kind = "none"
       \/ (rec.content.kind = "str" /\ Strip(rec.content.text) = <<>>)

\* the generator's object stops before its closing brace
CutShort ==
    /\ rec.pc = "done"
    /\ rec.content \in
            {Truncated(v, 1) :
                v \in VinValues \cup TranslateValues \cup ListingValues \cup ConsigneeValues}

\* C17: at every call site an answer of the generator that is empty, absent
\* or cut before its closing brace ends in the "no JSON found" error with the
\* raw text attached: never in another kind of error, an unhandled exception
\* or a normal return.
C17_EmptyOrCutAnswerIsNoJsonFound ==
    (EmptyOrAbsent \/ CutShort) =>
        /\ rec.outcome.kind = "raise"
        /\ rec.outcome.detail \in {"no_json", "invalid_json"}
        /\ rec.outcome.attached = Strip(rec.content.text)


\* C19: for every input of height H >= 1 and width W >= 1, one row or one
\* column included, enhance_image returns a 2-D image of 8-bit samples with
\* the height H and the width W of its argument.
C19_ReturnsTheShapeOfTheArgument ==
    \A r \in DOMAIN calls :
        Finished(calls[r]) =>
            /\ calls[r].pc = "returned"
            /\ Len(calls[r].enhanced.shape) = 2
            /\ calls[r].enhanced.shape = calls[r].arg.shape
            /\ \A i \in DOMAIN calls[r].enhanced.px : calls[r].enhanced.px[i] \in 0..255


\* the request's image was decoded and lines 22-32 have run on it
PastDownscale == ext.file.decodes /\ ext.pc \notin {"idle", "decoded"}

\* C20: the downscale step of /extract turns an image whose larger side
\* exceeds 1600 into an image whose larger side is at most 1600, whose sides
\* are both at least 1 and whose width to height ratio is that of the input
\* up to the truncation of each side to a whole number; the step applied to
\* its own output changes nothing; an image whose larger side is at most
\* 1600 is left as it is.
C20_DownscaleBoundsAndKeepsTheRatio ==
    PastDownscale =>
        LET h == ext.file.shape[1]
            w == ext.file.shape[2]
        IN  /\ Max(h, w) > 1600 =>
                    /\ ext.failed # "downscale"
                    /\ ext.img[1] >= 1 /\ ext.img[2] >= 1
                    /\ Max(ext.img[1], ext.img[2]) <= 1600
                    /\ Abs(ext.img[2] * h - ext.img[1] * w) <= Max(h, w)
                    /\ Downscaled(ext.img) = {ext.img}
            /\ Max(h, w) <= 1600 => ext.img = ext.file.shape


\* the generator answered the /extract request and json.loads did not give a
\* value for its text
ExtractRecoveryFailed ==
    /\ ext.asked
    /\ ext.content.kind # "api_error"
    /\ ~ext.fields.parsed.ok

\* C16: when the recovery of the generator's text fails, the VIN extraction
\* ends in an error and returns no record: extract_vin_fields does not return
\* normally, and /extract does not answer 200 with a record of fields.
C16_RecoveryFailureIsAnError ==
    ExtractRecoveryFailed =>
        /\ ext.fields.kind = "raise"
        /\ ext.pc = "responded" => (ext.status >= 400 /\ ext.body = "error")


\* the steps of /extract in the order of the claim, with and without the
\* downscale
AllSteps == <<"decode", "downscale", "enhance", "encode", "upload", "generator">>
StepsWithoutDownscale == <<"decode", "enhance", "encode", "upload", "generator">>

IsPrefix(t, u) == Len(t) <= Len(u) /\ SubSeq(u, 1, Len(t)) = t

Ran(step) == \E i \in DOMAIN ext.trace : ext.trace[i] = step

\* C18: the steps of an /extract request run in the order decode, downscale
\* (only for an image whose larger side exceeds 1600), enhance, encode,
\* upload, generator call; a step that fails is the last one to run and the
\* request ends with an error response: after a failed decode, downscale or
\* enhance nothing is uploaded and the generator is not called, after a
\* failed upload the generator is not called; the response 200 is given only
\* when every step ran and none failed.
C18_StepsInOrderFailureAborts ==
    /\ IsPrefix(ext.trace, AllSteps) \/ IsPrefix(ext.trace, StepsWithoutDownscale)
    /\ Ran("downscale") => Max(ext.file.shape[1], ext.file.shape[2]) > 1600
    /\ ext.failed # "" =>
            /\ ext.pc = "responded"
            /\ ext.status \in {400, 500}
            /\ ext.body = "error"
            /\ ext.trace[Len(ext.trace)] = ext.failed
    /\ ext.failed \in {"decode", "downscale", "enhance", "encode"} =>
            (~ext.uploaded /\ ~ext.asked /\ ~Ran("upload") /\ ~Ran("generator"))
    /\ ext.failed = "upload" => (~ext.uploaded /\ ~ext.asked /\ ~Ran("generator"))
    /\ ext.asked => (ext.uploaded /\ Ran("generator"))
    /\ ext.uploaded => Ran("upload")
    /\ ext.status = 200 =>
            (ext.failed = "" /\ ext.trace \in {AllSteps, StepsWithoutDownscale})

\* the upload of a downscaled and enhanced image has failed and the request
\* was answered with status 500
C18_Witness ==
    /\ ext.pc = "responded"
    /\ ext.failed = "upload"
    /\ ext.trace = <<"decode", "downscale", "enhance", "encode", "upload">>
    /\ ext.status = 500
    /\ ~ext.asked


\* every pixel of the image is at a clamp bound
Saturated(a) == \A i \in 1..Len(a.px) : a.px[i] \in {0, 255}

\* C21: the normalisation stage applied to an image whose pixels are all 0 or
\* 255 leaves every pixel at its bound, and applied again it selects the same
\* branch and again changes no pixel.
C21_SaturatedImageIsStable ==
    \A r \in DOMAIN calls :
        (Normalized(calls[r]) /\ Saturated(NormIn(calls[r]))) =>
            LET in == NormIn(calls[r])
                out == NormOut(calls[r])
            IN  /\ out = in
                /\ Branch(out) = Branch(in)
                /\ NormalizeImage(out) = out


\* the handler has raised the error of one of its input checks
RejectedByValidation ==
    /\ rec.pc = "done"
    /\ rec.outcome.kind = "raise"
    /\ rec.outcome.detail \in
            {"invalid_country", "body_required", "url_required", "source_required",
             "text_required", "targets_required", "invalid_source", "invalid_target"}

\* C22: a request that a handler's input check rejects is answered with the
\* status 400 that the check raises: an unsupported country in
\* generate_consignee, an empty or non-object body in generate_docx, a missing
\* file_url and template_url in generate_docx_from_data, and the checks of
\* translate_text and generate_listing.
C22_ValidationErrorIsStatus400 == RejectedByValidation => rec.outcome.status = 400


DecimalDigits == {"0", "1", "2", "3", "4", "5", "6", "7", "8", "9"}

\* generate_phone has returned a number for the country
PhoneFor(country) == rec.pc = "done" /\ rec.site = "phone" /\ rec.data = JStr(country)

\* the number is "+" followed by n digits
PlusAndDigits(phone, n) ==
    /\ Len(phone) = n + 1
    /\ phone[1] = "+"
    /\ \A i \in 2..Len(phone) : phone[i] \in DecimalDigits

\* C23: for every prefix and every draw of digits, generate_phone returns "+"
\* followed by 11 digits for Russia and Kazakhstan and by 12 digits for
\* Kyrgyzstan and Uzbekistan.
C23_PhoneHasTheDocumentedLength ==
    /\ \A country \in {"Russia", "Kazakhstan"} :
            PhoneFor(country) => PlusAndDigits(rec.outcome.body, 11)
    /\ \A country \in {"Kyrgyzstan", "Uzbekistan"} :
            PhoneFor(country) => PlusAndDigits(rec.outcome.body, 12)

====
